---- MODULE Spec2Model ----
(***************************************************************************)
(* Genesis sync storage (package genesis): the SyncStorage engine and the  *)
(* KubernetesStorage engine, as state machines at the granularity of the   *)
(* engine mutex, the fan-out channel and the database statements.          *)
(***************************************************************************)
EXTENDS Integers, Sequences, FiniteSets, TLC

(***************************************************************************)
(* Bounds of the model.                                                    *)
(***************************************************************************)
MaxTime == 2              \* the wall clock runs 0..MaxTime
MaxCalls == 1             \* Renew/Update calls in one behaviour
ChanCap == 1              \* buffer of the fan-out channel
AgingTime == 1            \* cfg.AgingTime, in clock units
VinterfaceAgingTime == 0  \* cfg.VinterfaceAgingTime, in clock units

Keys == {"A"}

(***************************************************************************)
(* The ten families, in the three orders the engine walks them.            *)
(***************************************************************************)
UpdateOrder ==
  <<"VIPs", "VMs", "VPCs", "Hosts", "Lldps", "Ports", "Networks",
    "IPlastseens", "Vinterfaces", "Processes">>

FetchOrder ==
  <<"VIPs", "VMs", "VPCs", "Hosts", "Ports", "Lldps", "IPlastseens",
    "Networks", "Vinterfaces", "Processes">>

\* The Age lines with one for Hosts in front.
AgeOrderWithHosts ==
  <<"Hosts", "VIPs", "VMs", "VPCs", "Lldps", "Ports", "Networks", "IPlastseens", "Processes",
    "Vinterfaces">>

AgeOrder ==
  <<"VIPs", "VMs", "VPCs", "Lldps", "Ports", "Networks", "IPlastseens",
    "Processes", "Vinterfaces">>

Families == {UpdateOrder[i] : i \in 1..Len(UpdateOrder)}

AgedFamilies == {AgeOrder[i] : i \in 1..Len(AgeOrder)}

TTL(f) == IF f = "Vinterfaces" THEN VinterfaceAgingTime ELSE AgingTime

(***************************************************************************)
(* One family's data operation: a keyed table, here key |-> last_seen,     *)
(* NoRec for a key that has no record.                                     *)
(***************************************************************************)
NoRec == 0 - 1

EmptyFamily == [k \in Keys |-> NoRec]

Records(fam) == {k \in Keys : fam[k] # NoRec}

FamilyRenew(fam, keys, t) ==
  [k \in Keys |-> IF k \in keys /\ fam[k] # NoRec THEN t ELSE fam[k]]

FamilyUpdate(fam, keys, t) ==
  [k \in Keys |-> IF k \in keys THEN t ELSE fam[k]]

Stale(fam, t, ttl) == {k \in Records(fam) : t - fam[k] > ttl}

FamilyAge(fam, t, ttl) ==
  [k \in Keys |-> IF k \in Stale(fam, t, ttl) THEN NoRec ELSE fam[k]]

AgeChanged(fam, t, ttl) == Stale(fam, t, ttl) # {}

FamilyLoad(rows, t, ttl) == FamilyAge(rows, t, ttl)

FamilyFetch(fam) == Records(fam)

(***************************************************************************)
(* Inputs of Renew and Update: the families whose slot is not nil in data, *)
(* and the keys of the records they carry.                                 *)
(***************************************************************************)
DataChoices ==
  {[present |-> {}, keys |-> {}],
   [present |-> {"VMs"}, keys |-> {}],
   [present |-> {"VMs"}, keys |-> Keys],
   [present |-> {"VIPs", "VMs"}, keys |-> Keys],
   [present |-> {"Hosts", "Vinterfaces"}, keys |-> Keys]}

DEFAULT_ORG_ID == 1

Orgs == {1, 2}

VtapIDs == {0, 1}

InfoChoices ==
  {[orgID |-> 1, vtapID |-> 0], [orgID |-> 1, vtapID |-> 1], [orgID |-> 2, vtapID |-> 1]}

\* Table vtap of each organization: the registered agents.
vtap == [o \in Orgs |-> IF o = 1 THEN {1} ELSE {}]

NODE_IP == "self"

NoRow == "none"

VARIABLES
  now,              \* wall clock
  crashed,          \* the process died of a panic
  mutex,            \* SyncStorage.mutex: "free" or its holder
  loaded,           \* the ten slots of genesisSyncInfo are set (not nil)
  genesisSyncInfo,  \* family |-> table
  dirty,            \* SyncStorage.dirty
  channel,          \* SyncStorage.channel: the number of snapshots in its buffer
  pushed,           \* the snapshot sent on the channel last
  stamp,            \* family |-> id of the operation that last changed it
  opFams,           \* operation id |-> the families it changes
  genesisStorage,   \* org |-> vtap_id |-> node_ip of table genesis_storage
  dbFamilies,       \* family |-> rows of its genesis_* table
  cpc, cop, cdata, cinfo, cnow, ci, updateFlag, clog, callsLeft,
  rpc, rnow, hasChange, rsnap, ri, rlog, ageAny, dirtyRead,
  qpc,              \* the ownership reconciler
  kmutex,           \* KubernetesStorage.mutex: "free" or its holder
  kubernetesData,   \* orgID |-> ClusterID |-> KubernetesInfo
  kchannel,         \* KubernetesStorage.channel: the number of records in its buffer
  kpc, korg, kinfo, unTriggerFlag, kleft, ksent, ktrig, kerr, addsLeft,
  requests,         \* caller |-> the refresh request (HTTP GET) of its Add
  lastAdd,          \* ClusterID |-> the report of the latest Add for it
  krpc, krnow, krleft, krsent,
  vCancelled,       \* SyncStorage.vCtx is cancelled
  kCancelled,       \* KubernetesStorage.kCtx is cancelled
  storageRows,      \* org |-> the rows of table genesis_storage
  opc, oleft, oinvalid,
  olog,             \* the upserts since the reconciler's tick began
  upsertsLeft,
  tdb, tcluster, tversion, tres, tpc

syncShared ==
  <<crashed, mutex, loaded, genesisSyncInfo, dirty, channel, pushed,
    stamp, opFams, genesisStorage, dbFamilies>>

callerVars == <<cpc, cop, cdata, cinfo, cnow, ci, updateFlag, clog, callsLeft>>

runVars == <<rpc, rnow, hasChange, rsnap, ri, rlog, ageAny, dirtyRead>>

syncVars == <<syncShared, callerVars, runVars, qpc>>

k8sShared == <<kmutex, kubernetesData, kchannel>>

addVars ==
  <<kpc, korg, kinfo, unTriggerFlag, kleft, ksent, ktrig, kerr, addsLeft,
    requests, lastAdd>>

krunVars == <<krpc, krnow, krleft, krsent>>

k8sVars == <<k8sShared, addVars, krunVars>>

ctxVars == <<vCancelled, kCancelled>>

ownVars == <<storageRows, opc, oleft, oinvalid, olog, upsertsLeft>>

trigVars == <<tdb, tcluster, tversion, tres, tpc>>

auxVars == <<ctxVars, ownVars, trigVars>>

vars == <<now, syncVars, k8sVars, auxVars>>

Unset == [f \in Families |-> EmptyFamily]

ZeroStamp == [f \in Families |-> 0]

NoSnapshot == [recs |-> [f \in Families |-> {}], stamp |-> ZeroStamp, locked |-> TRUE]

NoData == [present |-> {}, keys |-> {}]

NoInfo == [orgID |-> DEFAULT_ORG_ID, vtapID |-> 0]

\* The rows the genesis_* tables hold when the process starts.
InitialRows ==
  [f \in Families |-> IF f \in {"VMs", "Hosts"} THEN [k \in Keys |-> 0] ELSE EmptyFamily]

(***************************************************************************)
(* KubernetesStorage: its records, its callers and its inputs.             *)
(***************************************************************************)
MaxAdds == 2              \* Add calls in one behaviour

KThreads == {"t1", "t2"}

KOrgs == {1}

ClusterIDs == {"c1", "c2"}

KInfo(c, v, e, m, t) ==
  [ClusterID |-> c, Version |-> v, Entries |-> e, ErrorMSG |-> m, Epoch |-> t]

\* The reports Add is called with, Epoch aside (the time of the report).
AddChoices(t) ==
  {KInfo("c1", 1, "E1", "", t), KInfo("c1", 1, "E2", "x", t),
   KInfo("c1", 2, "E2", "", t), KInfo("c2", 1, "E1", "", t)}

NoKInfo == KInfo("c1", 0, "", "", 0)

NoMap == [o \in {} |-> 0]

\* The (orgID, ClusterID) pairs of the stored records.
Stored(data) == {<<o, c>> \in KOrgs \X ClusterIDs : o \in DOMAIN data /\ c \in DOMAIN data[o]}

InitK8s ==
  /\ kmutex = "free"
  /\ kubernetesData = NoMap
  /\ kchannel = 0
  /\ requests = [t \in KThreads |-> <<>>]
  /\ lastAdd = [c \in ClusterIDs |-> NoKInfo]
  /\ kpc = [t \in KThreads |-> "idle"]
  /\ korg = [t \in KThreads |-> 1]
  /\ kinfo = [t \in KThreads |-> NoKInfo]
  /\ unTriggerFlag = [t \in KThreads |-> FALSE]
  /\ kleft = [t \in KThreads |-> {}]
  /\ ksent = [t \in KThreads |-> {}]
  /\ ktrig = [t \in KThreads |-> <<>>]
  /\ kerr = [t \in KThreads |-> FALSE]
  /\ addsLeft = MaxAdds
  /\ krpc = "created" /\ krnow = 0 /\ krleft = {} /\ krsent = {}

InitSync ==
  /\ crashed = FALSE
  /\ mutex = "free"
  /\ loaded = FALSE
  /\ genesisSyncInfo = Unset
  /\ dirty = FALSE
  /\ channel = 0
  /\ pushed = NoSnapshot
  /\ stamp = ZeroStamp
  /\ opFams = <<>>
  /\ genesisStorage = [o \in Orgs |-> [v \in VtapIDs \ {0} |-> NoRow]]
  /\ dbFamilies = InitialRows
  /\ cpc = "idle" /\ cop = "none" /\ cdata = NoData /\ cinfo = NoInfo
  /\ cnow = 0 /\ ci = 0 /\ updateFlag = FALSE /\ clog = <<>>
  /\ callsLeft = MaxCalls
  /\ rpc = "created" /\ rnow = 0 /\ hasChange = FALSE /\ rsnap = NoSnapshot
  /\ ri = 0 /\ rlog = <<>>
  /\ ageAny = FALSE /\ dirtyRead = FALSE
  /\ qpc = "created"

\* The upserts of genesis_storage rows that are followed.
MaxUpserts == 3

\* No Stop yet.
InitCtx == vCancelled = FALSE /\ kCancelled = FALSE

\* Table genesis_storage is empty and the reconciler is not started.
InitOwn ==
  /\ storageRows = [o \in Orgs |-> {}]
  /\ opc = "created" /\ oleft = <<>> /\ oinvalid = {} /\ olog = <<>>
  /\ upsertsLeft = MaxUpserts

\* No call of triggerCloudRrefresh on its own.
InitTrig ==
  /\ tdb = <<>> /\ tcluster = "" /\ tversion = 0 /\ tres = <<>> /\ tpc = "none"

Init == now = 0 /\ InitSync /\ InitK8s /\ InitCtx /\ InitOwn /\ InitTrig

(***************************************************************************)
(* fetch: the snapshot built from the ten families' Fetch.                 *)
(***************************************************************************)
Snapshot(info, st, held) ==
  [recs |-> [f \in Families |-> FamilyFetch(info[f])], stamp |-> st, locked |-> held]

\* The first index at or after i of a family present in data, 0 when none.
NextPresent(data, i) ==
  LET idx == {j \in i..Len(UpdateOrder) : UpdateOrder[j] \in data.present}
  IN IF idx = {} THEN 0 ELSE CHOOSE j \in idx : \A m \in idx : j <= m

(***************************************************************************)
(* Renew and Update, called by the receiver.                               *)
(***************************************************************************)
RenewCall ==
  /\ ~crashed
  /\ cpc = "idle" /\ callsLeft > 0
  /\ \E d \in DataChoices :
       /\ cdata' = d
       /\ cop' = "Renew"
  /\ cnow' = now
  /\ cpc' = "lock"
  /\ callsLeft' = callsLeft - 1
  /\ clog' = <<>>
  /\ UNCHANGED <<cinfo, ci, updateFlag>>
  /\ UNCHANGED <<auxVars, k8sVars, now, syncShared, runVars, qpc>>

UpdateCall ==
  /\ ~crashed
  /\ cpc = "idle" /\ callsLeft > 0
  /\ \E d \in DataChoices, inf \in InfoChoices :
       /\ cdata' = d
       /\ cinfo' = inf
  /\ cop' = "Update"
  /\ cnow' = now
  /\ cpc' = "lock"
  /\ callsLeft' = callsLeft - 1
  /\ updateFlag' = FALSE
  /\ clog' = <<>>
  /\ UNCHANGED ci
  /\ UNCHANGED <<auxVars, k8sVars, now, syncShared, runVars, qpc>>

CallerLock ==
  /\ ~crashed
  /\ cpc = "lock" /\ mutex = "free"
  /\ mutex' = "caller"
  /\ ci' = NextPresent(cdata, 1)
  /\ cpc' = IF NextPresent(cdata, 1) = 0 THEN "tail" ELSE "families"
  /\ UNCHANGED <<cop, cdata, cinfo, cnow, updateFlag, clog, callsLeft>>
  /\ UNCHANGED <<crashed, loaded, genesisSyncInfo, dirty, channel, pushed,
                 stamp, opFams, genesisStorage, dbFamilies>>
  /\ UNCHANGED <<auxVars, k8sVars, now, runVars, qpc>>

\* A method called on a slot that is still nil dereferences nil: a panic.
CallerPanic ==
  /\ ~crashed
  /\ cpc = "families" /\ ~loaded
  /\ crashed' = TRUE
  /\ cpc' = "panic"
  /\ mutex' = "free"
  /\ UNCHANGED <<cop, cdata, cinfo, cnow, ci, updateFlag, clog, callsLeft>>
  /\ UNCHANGED <<loaded, genesisSyncInfo, dirty, channel, pushed,
                 stamp, opFams, genesisStorage, dbFamilies>>
  /\ UNCHANGED <<auxVars, k8sVars, now, runVars, qpc>>

\* Renew written as Update: a record whose key is absent is created.
RenewFamilyCreates ==
  /\ ~crashed
  /\ cpc = "families" /\ cop = "Renew" /\ loaded
  /\ LET f == UpdateOrder[ci]
         n == NextPresent(cdata, ci + 1)
     IN /\ genesisSyncInfo' =
             [genesisSyncInfo EXCEPT ![f] = FamilyUpdate(@, cdata.keys, cnow)]
        /\ ci' = n
        /\ cpc' = IF n = 0 THEN "tail" ELSE "families"
  /\ UNCHANGED <<cop, cdata, cinfo, cnow, updateFlag, clog, callsLeft>>
  /\ UNCHANGED <<crashed, mutex, loaded, dirty, channel, pushed,
                 stamp, opFams, genesisStorage, dbFamilies>>
  /\ UNCHANGED <<auxVars, k8sVars, now, runVars, qpc>>

RenewFamily ==
  /\ ~crashed
  /\ cpc = "families" /\ cop = "Renew" /\ loaded
  /\ LET f == UpdateOrder[ci]
         n == NextPresent(cdata, ci + 1)
     IN /\ genesisSyncInfo' =
             [genesisSyncInfo EXCEPT ![f] = FamilyRenew(@, cdata.keys, cnow)]
        /\ ci' = n
        /\ cpc' = IF n = 0 THEN "tail" ELSE "families"
  /\ UNCHANGED <<cop, cdata, cinfo, cnow, updateFlag, clog, callsLeft>>
  /\ UNCHANGED <<crashed, mutex, loaded, dirty, channel, pushed,
                 stamp, opFams, genesisStorage, dbFamilies>>
  /\ UNCHANGED <<auxVars, k8sVars, now, runVars, qpc>>

RenewReturn ==
  /\ ~crashed
  /\ cpc = "tail" /\ cop = "Renew"
  /\ mutex' = "free"
  /\ cpc' = "returned"
  /\ UNCHANGED <<cop, cdata, cinfo, cnow, ci, updateFlag, clog, callsLeft>>
  /\ UNCHANGED <<crashed, loaded, genesisSyncInfo, dirty, channel, pushed,
                 stamp, opFams, genesisStorage, dbFamilies>>
  /\ UNCHANGED <<auxVars, k8sVars, now, runVars, qpc>>

UpdateFamily ==
  /\ ~crashed
  /\ cpc = "families" /\ cop = "Update" /\ loaded
  /\ LET f == UpdateOrder[ci]
         n == NextPresent(cdata, ci + 1)
         first == ~updateFlag
         id == IF first THEN Len(opFams) + 1 ELSE Len(opFams)
     IN /\ updateFlag' = TRUE
        /\ genesisSyncInfo' =
             [genesisSyncInfo EXCEPT ![f] = FamilyUpdate(@, cdata.keys, cnow)]
        /\ opFams' = IF first THEN Append(opFams, cdata.present) ELSE opFams
        /\ stamp' = [stamp EXCEPT ![f] = id]
        /\ ci' = n
        /\ cpc' = IF n = 0 THEN "tail" ELSE "families"
  /\ UNCHANGED <<cop, cdata, cinfo, cnow, clog, callsLeft>>
  /\ UNCHANGED <<crashed, mutex, loaded, dirty, channel, pushed,
                 genesisStorage, dbFamilies>>
  /\ UNCHANGED <<auxVars, k8sVars, now, runVars, qpc>>

\* updateFlag && info.vtapID != 0: s.fetch() under the mutex.
UpdatePush ==
  /\ ~crashed
  /\ cpc = "tail" /\ cop = "Update"
  /\ updateFlag /\ cinfo.vtapID # 0
  /\ channel < ChanCap
  /\ channel' = channel + 1
  /\ pushed' = Snapshot(genesisSyncInfo, stamp, mutex = "caller")
  /\ clog' = Append(clog, "push")
  /\ cpc' = "db"
  /\ UNCHANGED <<cop, cdata, cinfo, cnow, ci, updateFlag, callsLeft>>
  /\ UNCHANGED <<crashed, mutex, loaded, genesisSyncInfo, dirty,
                 stamp, opFams, genesisStorage, dbFamilies>>
  /\ UNCHANGED <<auxVars, k8sVars, now, runVars, qpc>>

\* mysql.GetDB, then the upsert of the ownership row, then s.dirty = true;
\* a failed GetDB returns at once.
UpdateDB ==
  /\ ~crashed
  /\ cpc = "db"
  /\ \E getDB \in BOOLEAN, created \in BOOLEAN :
       IF ~getDB
       THEN /\ clog' = Append(clog, "dberror")
            /\ UNCHANGED <<genesisStorage, dirty>>
       ELSE /\ clog' = Append(clog, "upsert")
            /\ genesisStorage' =
                 IF created
                 THEN [genesisStorage EXCEPT ![cinfo.orgID][cinfo.vtapID] = NODE_IP]
                 ELSE genesisStorage
            /\ dirty' = TRUE
  /\ mutex' = "free"
  /\ cpc' = "returned"
  /\ UNCHANGED <<cop, cdata, cinfo, cnow, ci, updateFlag, callsLeft>>
  /\ UNCHANGED <<crashed, loaded, genesisSyncInfo, channel, pushed,
                 stamp, opFams, dbFamilies>>
  /\ UNCHANGED <<auxVars, k8sVars, now, runVars, qpc>>

UpdateReturn ==
  /\ ~crashed
  /\ cpc = "tail" /\ cop = "Update"
  /\ ~(updateFlag /\ cinfo.vtapID # 0)
  /\ dirty' = TRUE
  /\ mutex' = "free"
  /\ cpc' = "returned"
  /\ UNCHANGED <<cop, cdata, cinfo, cnow, ci, updateFlag, clog, callsLeft>>
  /\ UNCHANGED <<crashed, loaded, genesisSyncInfo, channel, pushed,
                 stamp, opFams, genesisStorage, dbFamilies>>
  /\ UNCHANGED <<auxVars, k8sVars, now, runVars, qpc>>

\* The caller is back in the receiver; the call's locals are gone.
CallerDone ==
  /\ ~crashed
  /\ cpc = "returned"
  /\ cpc' = "idle" /\ cop' = "none" /\ cdata' = NoData /\ cinfo' = NoInfo
  /\ cnow' = 0 /\ ci' = 0 /\ updateFlag' = FALSE /\ clog' = <<>>
  /\ UNCHANGED callsLeft
  /\ UNCHANGED <<auxVars, k8sVars, now, syncShared, runVars, qpc>>

Renew == RenewCall \/ RenewFamily \/ RenewReturn

Update == UpdateCall \/ UpdateFamily \/ UpdatePush \/ UpdateDB \/ UpdateReturn

(***************************************************************************)
(* Start, and the persistence loop run.                                    *)
(***************************************************************************)
Start ==
  /\ ~crashed
  /\ rpc = "created"
  /\ rpc' = "load"
  /\ qpc' = "ticking"
  /\ UNCHANGED <<rnow, hasChange, rsnap, ri, rlog, ageAny, dirtyRead>>
  /\ UNCHANGED <<auxVars, k8sVars, now, syncShared, callerVars>>

\* loadFromDatabase up to its fetch: every slot is set and loaded.
loadFromDatabase ==
  /\ ~crashed
  /\ rpc = "load" /\ mutex = "free"
  /\ mutex' = "run"
  /\ loaded' = TRUE
  /\ genesisSyncInfo' = [f \in Families |-> FamilyLoad(dbFamilies[f], now, AgingTime)]
  /\ opFams' = Append(opFams, Families)
  /\ stamp' = [f \in Families |-> Len(opFams) + 1]
  /\ rpc' = "loadpush"
  /\ UNCHANGED <<rnow, hasChange, rsnap, ri, rlog, ageAny, dirtyRead>>
  /\ UNCHANGED <<crashed, dirty, channel, pushed, genesisStorage, dbFamilies>>
  /\ UNCHANGED <<auxVars, k8sVars, now, callerVars, qpc>>

\* The fetch that ends loadFromDatabase, and the deferred Unlock.
LoadPush ==
  /\ ~crashed
  /\ rpc = "loadpush"
  /\ channel < ChanCap
  /\ channel' = channel + 1
  /\ pushed' = Snapshot(genesisSyncInfo, stamp, mutex = "run")
  /\ mutex' = "free"
  /\ rpc' = "sleep"
  /\ UNCHANGED <<rnow, hasChange, rsnap, ri, rlog, ageAny, dirtyRead>>
  /\ UNCHANGED <<crashed, loaded, genesisSyncInfo, dirty,
                 stamp, opFams, genesisStorage, dbFamilies>>
  /\ UNCHANGED <<auxVars, k8sVars, now, callerVars, qpc>>

\* time.Sleep returns; now := time.Now(); hasChange := false.
RunWake ==
  /\ ~crashed
  /\ rpc = "sleep"
  /\ rnow' = now
  /\ hasChange' = FALSE
  /\ rlog' = <<>>
  /\ rpc' = "age"
  /\ UNCHANGED <<rsnap, ri, ageAny, dirtyRead>>
  /\ UNCHANGED <<auxVars, k8sVars, now, syncShared, callerVars, qpc>>

\* hasChange = hasChange || family.Age(now, ttl), family after family: the
\* right operand of || is evaluated only while hasChange is false.
RECURSIVE AgeChain(_, _, _, _)
AgeChain(info, i, hc, t) ==
  IF i > Len(AgeOrder)
  THEN [info |-> info, hasChange |-> hc]
  ELSE LET f == AgeOrder[i]
       IN IF hc
          THEN AgeChain(info, i + 1, TRUE, t)
          ELSE AgeChain([info EXCEPT ![f] = FamilyAge(@, t, TTL(f))], i + 1,
                        AgeChanged(info[f], t, TTL(f)), t)

\* Lock, the nine Age lines and the read of s.dirty (lines 398-408).
RunAge ==
  /\ ~crashed
  /\ rpc = "age" /\ mutex = "free"
  /\ mutex' = "run"
  /\ LET r == AgeChain(genesisSyncInfo, 1, hasChange, rnow)
         changed == {f \in Families : r.info[f] # genesisSyncInfo[f]}
     IN /\ genesisSyncInfo' = r.info
        /\ hasChange' = (r.hasChange \/ dirty)
        /\ ageAny' = \E f \in AgedFamilies : AgeChanged(genesisSyncInfo[f], rnow, TTL(f))
        /\ opFams' = IF changed = {} THEN opFams ELSE Append(opFams, changed)
        /\ stamp' = [f \in Families |->
                       IF f \in changed THEN Len(opFams) + 1 ELSE stamp[f]]
  /\ dirtyRead' = dirty
  /\ rpc' = "clear"
  /\ UNCHANGED <<rnow, rsnap, ri, rlog>>
  /\ UNCHANGED <<crashed, loaded, dirty, channel, pushed, genesisStorage, dbFamilies>>
  /\ UNCHANGED <<auxVars, k8sVars, now, callerVars, qpc>>

\* s.dirty = false (line 409).
RunClear ==
  /\ ~crashed
  /\ rpc = "clear"
  /\ dirty' = FALSE
  /\ rpc' = "unlock"
  /\ UNCHANGED <<rnow, hasChange, rsnap, ri, rlog, ageAny, dirtyRead>>
  /\ UNCHANGED <<crashed, mutex, loaded, genesisSyncInfo, channel, pushed,
                 stamp, opFams, genesisStorage, dbFamilies>>
  /\ UNCHANGED <<auxVars, k8sVars, now, callerVars, qpc>>

\* s.mutex.Unlock() (line 410) and the test of hasChange.
RunUnlock ==
  /\ ~crashed
  /\ rpc = "unlock"
  /\ mutex' = "free"
  /\ rpc' = IF hasChange THEN "store" ELSE "done"
  /\ UNCHANGED <<rnow, hasChange, rsnap, ri, rlog, ageAny, dirtyRead>>
  /\ UNCHANGED <<crashed, loaded, genesisSyncInfo, dirty, channel, pushed,
                 stamp, opFams, genesisStorage, dbFamilies>>
  /\ UNCHANGED <<auxVars, k8sVars, now, callerVars, qpc>>

\* storeToDatabase: under the mutex, Save of each family.
storeToDatabase ==
  /\ ~crashed
  /\ rpc = "store" /\ mutex = "free"
  /\ dbFamilies' = genesisSyncInfo
  /\ rlog' = Append(rlog, "store")
  /\ rsnap' = NoSnapshot
  /\ ri' = 1
  /\ rpc' = "fetch"
  /\ UNCHANGED <<rnow, hasChange, ageAny, dirtyRead>>
  /\ UNCHANGED <<crashed, mutex, loaded, genesisSyncInfo, dirty, channel, pushed,
                 stamp, opFams, genesisStorage>>
  /\ UNCHANGED <<auxVars, k8sVars, now, callerVars, qpc>>

\* s.fetch() of line 413 builds the snapshot one family's Fetch at a time, in
\* the order of the composite literal, with the mutex not held by run.
RunFetchFamily ==
  /\ ~crashed
  /\ rpc = "fetch"
  /\ LET f == FetchOrder[ri]
     IN rsnap' = [recs |-> [rsnap.recs EXCEPT ![f] = FamilyFetch(genesisSyncInfo[f])],
                  stamp |-> [rsnap.stamp EXCEPT ![f] = stamp[f]],
                  locked |-> (IF ri = 1 THEN TRUE ELSE rsnap.locked) /\ mutex = "run"]
  /\ ri' = ri + 1
  /\ rpc' = IF ri = Len(FetchOrder) THEN "send" ELSE "fetch"
  /\ UNCHANGED <<rnow, hasChange, rlog, ageAny, dirtyRead>>
  /\ UNCHANGED <<auxVars, k8sVars, now, syncShared, callerVars, qpc>>

\* The send of the built snapshot on s.channel.
RunSend ==
  /\ ~crashed
  /\ rpc = "send"
  /\ channel < ChanCap
  /\ channel' = channel + 1
  /\ pushed' = rsnap
  /\ rlog' = Append(rlog, "push")
  /\ rpc' = "done"
  /\ UNCHANGED <<rnow, hasChange, rsnap, ri, ageAny, dirtyRead>>
  /\ UNCHANGED <<crashed, mutex, loaded, genesisSyncInfo, dirty,
                 stamp, opFams, genesisStorage, dbFamilies>>
  /\ UNCHANGED <<auxVars, k8sVars, now, callerVars, qpc>>

\* The end of the loop body: the tick's locals are gone.
RunLoop ==
  /\ ~crashed
  /\ rpc = "done"
  /\ rpc' = "sleep" /\ rnow' = 0 /\ hasChange' = FALSE /\ rsnap' = NoSnapshot
  /\ ri' = 0 /\ rlog' = <<>> /\ ageAny' = FALSE /\ dirtyRead' = FALSE
  /\ UNCHANGED <<auxVars, k8sVars, now, syncShared, callerVars, qpc>>

run ==
  \/ loadFromDatabase
  \/ LoadPush
  \/ RunWake
  \/ RunAge
  \/ RunClear
  \/ RunUnlock
  \/ storeToDatabase
  \/ RunFetchFamily
  \/ RunSend
  \/ RunLoop

(***************************************************************************)
(* The ownership reconciler, one tick of refreshDatabase: the rows of this *)
(* node whose vtap_id is not in vtap are deleted in every organization     *)
(* whose database opens, then s.dirty = true, with the mutex not taken.    *)
(* A tick whose GetORGIDs fails returns from refreshDatabase.              *)
(***************************************************************************)
Invalid(storage, o) == {v \in DOMAIN storage[o] : storage[o][v] = NODE_IP /\ v \notin vtap[o]}

refreshDatabase ==
  /\ ~crashed
  /\ qpc = "ticking"
  /\ \E orgIDsOK \in BOOLEAN, cleaned \in SUBSET Orgs :
       \* cleaned: the organizations whose GetDB and Delete both succeed
       IF ~orgIDsOK
       THEN /\ qpc' = "returned"
            /\ UNCHANGED <<genesisStorage, dirty>>
       ELSE /\ genesisStorage' =
                 [o \in Orgs |->
                    IF o \in cleaned
                    THEN [v \in DOMAIN genesisStorage[o] |->
                            IF v \in Invalid(genesisStorage, o)
                            THEN NoRow ELSE genesisStorage[o][v]]
                    ELSE genesisStorage[o]]
            /\ dirty' = TRUE
            /\ qpc' = "ticking"
  /\ UNCHANGED <<crashed, mutex, loaded, genesisSyncInfo, channel, pushed,
                 stamp, opFams, dbFamilies>>
  /\ UNCHANGED <<auxVars, k8sVars, now, callerVars, runVars>>

(***************************************************************************)
(* The consumer of the fan-out channel, and the clock.                     *)
(***************************************************************************)
Receive ==
  /\ ~crashed
  /\ channel > 0
  /\ channel' = channel - 1
  /\ UNCHANGED <<crashed, mutex, loaded, genesisSyncInfo, dirty, pushed,
                 stamp, opFams, genesisStorage, dbFamilies>>
  /\ UNCHANGED <<auxVars, k8sVars, now, callerVars, runVars, qpc>>

Clock ==
  /\ ~crashed
  /\ now < MaxTime
  /\ now' = now + 1
  /\ UNCHANGED <<auxVars, k8sVars, syncShared, callerVars, runVars, qpc>>

Next ==
  \/ Renew
  \/ Update
  \/ CallerLock
  \/ CallerPanic
  \/ CallerDone
  \/ Start
  \/ run
  \/ refreshDatabase
  \/ Receive
  \/ Clock

Spec == Init /\ [][Next]_vars

(***************************************************************************)
(* triggerCloudRrefresh: the lookups in the organization's database and    *)
(* the request they lead to.  db is what the database answers.             *)
(***************************************************************************)
KUBERNETES == "kubernetes"

CONTROLLER_STATE_EXCEPTION == "exception"

SubDomainRow(l, d, c) == [lcuuid |-> l, domain |-> d, cluster_id |-> c]

DomainRow(l, c, ty, ip) == [lcuuid |-> l, cluster_id |-> c, type |-> ty, controller_ip |-> ip]

ControllerRow(ip, st, pod) == [ip |-> ip, state |-> st, pod_ip |-> pod]

KDb(ok, subOK, subs, doms, ctrls) ==
  [getDB |-> ok, subOK |-> subOK, sub_domain |-> subs, domain |-> doms, controller |-> ctrls]

KDbChoices ==
  LET doms == {DomainRow("d1", "c1", KUBERNETES, "10.0.0.1"),
               DomainRow("d2", "c9", KUBERNETES, "10.0.0.2"),
               DomainRow("d3", "c2", "other", "10.0.0.1")}
      ctrls == {ControllerRow("10.0.0.1", "normal", "pod1"),
                ControllerRow("10.0.0.2", "normal", "")}
  IN {KDb(FALSE, TRUE, {}, doms, ctrls),
      KDb(TRUE, FALSE, {}, doms, ctrls),
      KDb(TRUE, TRUE, {}, doms, ctrls),
      KDb(TRUE, TRUE, {SubDomainRow("s1", "d2", "c1"), SubDomainRow("s2", "d2", "c2")},
          doms, ctrls),
      KDb(TRUE, TRUE, {SubDomainRow("s1", "d2", "c1"), SubDomainRow("s2", "d1", "c1")},
          doms, ctrls),
      KDb(TRUE, TRUE, {}, doms, {ControllerRow("10.0.0.1", CONTROLLER_STATE_EXCEPTION, "pod1")})}

Failed == [err |-> TRUE, get |-> <<>>]

\* triggerCloudRrefresh that takes a sub-domain when several rows name the
\* cluster.
triggerAnySubDomain(db, clusterID, version) ==
  IF ~db.getDB \/ ~db.subOK THEN Failed
  ELSE
    LET subDomains == {r \in db.sub_domain : r.cluster_id = clusterID}
        sub == CHOOSE r \in subDomains : TRUE
        domains ==
          IF subDomains = {}
          THEN {d \in db.domain : d.cluster_id = clusterID /\ d.type = KUBERNETES}
          ELSE {d \in db.domain : d.lcuuid = sub.domain /\ d.type = KUBERNETES}
        domain == CHOOSE d \in domains : TRUE
        controllers ==
          {c \in db.controller :
             c.ip = domain.controller_ip /\ c.state # CONTROLLER_STATE_EXCEPTION}
        controller == CHOOSE c \in controllers : TRUE
    IN IF domains = {} \/ controllers = {} THEN Failed
       ELSE [err |-> FALSE,
             get |-> [ip |-> IF controller.pod_ip # "" THEN controller.pod_ip
                             ELSE domain.controller_ip,
                      port |-> IF controller.pod_ip # "" THEN "listenPort"
                               ELSE "listenNodePort",
                      domain_lcuuid |-> domain.lcuuid,
                      sub_domain_lcuuid |->
                        IF subDomains = {} THEN domain.lcuuid ELSE sub.lcuuid,
                      version |-> version]]

triggerCloudRrefresh(db, clusterID, version) ==
  IF ~db.getDB \/ ~db.subOK THEN Failed
  ELSE
    LET subDomains == {r \in db.sub_domain : r.cluster_id = clusterID}
        n == Cardinality(subDomains)
        sub == CHOOSE r \in subDomains : TRUE
        domains ==
          IF n = 0
          THEN {d \in db.domain : d.cluster_id = clusterID /\ d.type = KUBERNETES}
          ELSE {d \in db.domain : d.lcuuid = sub.domain /\ d.type = KUBERNETES}
        domain == CHOOSE d \in domains : TRUE
        controllers ==
          {c \in db.controller :
             c.ip = domain.controller_ip /\ c.state # CONTROLLER_STATE_EXCEPTION}
        controller == CHOOSE c \in controllers : TRUE
    IN IF n > 1 \/ domains = {} \/ controllers = {} THEN Failed
       ELSE [err |-> FALSE,
             get |-> [ip |-> IF controller.pod_ip # "" THEN controller.pod_ip
                             ELSE domain.controller_ip,
                      port |-> IF controller.pod_ip # "" THEN "listenPort"
                               ELSE "listenNodePort",
                      domain_lcuuid |-> domain.lcuuid,
                      sub_domain_lcuuid |-> IF n = 0 THEN domain.lcuuid ELSE sub.lcuuid,
                      version |-> version]]

(***************************************************************************)
(* KubernetesStorage.Add.                                                  *)
(***************************************************************************)
\* Add that stores the report in full when the Version is unchanged.
AddDataOverwrites(data, orgID, newInfo) ==
  LET c == newInfo.ClusterID
      same == /\ orgID \in DOMAIN data
              /\ c \in DOMAIN data[orgID]
              /\ data[orgID][c].Version = newInfo.Version
      old == IF orgID \in DOMAIN data THEN data[orgID] ELSE NoMap
  IN [unTriggerFlag |-> same,
      data |-> [o \in DOMAIN data \cup {orgID} |->
                  IF o = orgID
                  THEN [x \in DOMAIN old \cup {c} |-> IF x = c THEN newInfo ELSE old[x]]
                  ELSE data[o]]]

\* Add that takes any stored record of the cluster for an unchanged Version.
AddDataIgnoresVersion(data, orgID, newInfo) ==
  LET c == newInfo.ClusterID
  IN IF orgID \in DOMAIN data /\ c \in DOMAIN data[orgID]
     THEN [unTriggerFlag |-> TRUE,
           data |-> [data EXCEPT ![orgID][c] =
                       [@ EXCEPT !.Epoch = newInfo.Epoch,
                                 !.ErrorMSG = newInfo.ErrorMSG]]]
     ELSE [unTriggerFlag |-> FALSE,
           data |-> [o \in DOMAIN data \cup {orgID} |->
                       IF o = orgID
                       THEN [x \in (IF o \in DOMAIN data THEN DOMAIN data[o] ELSE {})
                                     \cup {c} |->
                               IF x = c THEN newInfo ELSE data[o][x]]
                       ELSE data[o]]]

\* The map after the locked part of Add, and unTriggerFlag.
AddData(data, orgID, newInfo) ==
  LET c == newInfo.ClusterID
  IN IF orgID \in DOMAIN data
     THEN IF c \in DOMAIN data[orgID] /\ data[orgID][c].Version = newInfo.Version
          THEN [unTriggerFlag |-> TRUE,
                data |-> [data EXCEPT ![orgID][c] =
                            [@ EXCEPT !.Epoch = newInfo.Epoch,
                                      !.ErrorMSG = newInfo.ErrorMSG]]]
          ELSE [unTriggerFlag |-> FALSE,
                data |-> [data EXCEPT ![orgID] =
                            [x \in DOMAIN data[orgID] \cup {c} |->
                               IF x = c THEN newInfo ELSE data[orgID][x]]]]
     ELSE [unTriggerFlag |-> FALSE,
           data |-> [o \in DOMAIN data \cup {orgID} |->
                       IF o = orgID THEN [x \in {c} |-> newInfo] ELSE data[o]]]

\* Add that releases the mutex before the snapshot is sent.
AddUnlocksBeforeFetch(t) ==
  /\ kpc[t] = "idle" /\ addsLeft > 0 /\ kmutex = "free"
  /\ \E orgID \in KOrgs, newInfo \in AddChoices(now) :
       LET r == AddData(kubernetesData, orgID, newInfo)
       IN /\ korg' = [korg EXCEPT ![t] = orgID]
          /\ kinfo' = [kinfo EXCEPT ![t] = newInfo]
          /\ kubernetesData' = r.data
          /\ unTriggerFlag' = [unTriggerFlag EXCEPT ![t] = r.unTriggerFlag]
          /\ kleft' = [kleft EXCEPT ![t] = Stored(r.data)]
          /\ lastAdd' = [lastAdd EXCEPT ![newInfo.ClusterID] = newInfo]
  /\ kmutex' = "free"
  /\ addsLeft' = addsLeft - 1
  /\ kpc' = [kpc EXCEPT ![t] = "fetch"]
  /\ UNCHANGED <<ksent, ktrig, kerr, requests>>
  /\ UNCHANGED <<kchannel, krunVars, now, syncVars, auxVars>>

\* Lock and the update of the map (lines 462-479).
AddLock(t) ==
  /\ kpc[t] = "idle" /\ addsLeft > 0 /\ kmutex = "free"
  /\ \E orgID \in KOrgs, newInfo \in AddChoices(now) :
       LET r == AddData(kubernetesData, orgID, newInfo)
       IN /\ korg' = [korg EXCEPT ![t] = orgID]
          /\ kinfo' = [kinfo EXCEPT ![t] = newInfo]
          /\ kubernetesData' = r.data
          /\ unTriggerFlag' = [unTriggerFlag EXCEPT ![t] = r.unTriggerFlag]
          /\ kleft' = [kleft EXCEPT ![t] = Stored(r.data)]
          /\ lastAdd' = [lastAdd EXCEPT ![newInfo.ClusterID] = newInfo]
  /\ kmutex' = t
  /\ addsLeft' = addsLeft - 1
  /\ kpc' = [kpc EXCEPT ![t] = "fetch"]
  /\ UNCHANGED <<ksent, ktrig, kerr, requests>>
  /\ UNCHANGED <<kchannel, krunVars, now, syncVars, auxVars>>

\* One send of k.fetch(): the range over the maps visits the records in any
\* order, each once.
AddSend(t) ==
  /\ kpc[t] = "fetch" /\ kchannel < ChanCap
  /\ \E e \in kleft[t] :
       /\ kleft' = [kleft EXCEPT ![t] = @ \ {e}]
       /\ ksent' = [ksent EXCEPT ![t] = @ \cup {kubernetesData[e[1]][e[2]]}]
  /\ kchannel' = kchannel + 1
  /\ UNCHANGED <<kpc, korg, kinfo, unTriggerFlag, ktrig, kerr, addsLeft, requests, lastAdd>>
  /\ UNCHANGED <<kmutex, kubernetesData, krunVars, now, syncVars, auxVars>>

\* k.mutex.Unlock() after fetch, and the test of unTriggerFlag.
AddUnlock(t) ==
  /\ kpc[t] = "fetch" /\ kleft[t] = {}
  /\ kmutex' = "free"
  /\ kpc' = [kpc EXCEPT ![t] = IF unTriggerFlag[t] THEN "returned" ELSE "trigger"]
  /\ UNCHANGED <<korg, kinfo, unTriggerFlag, kleft, ksent, ktrig, kerr, addsLeft>>
  /\ UNCHANGED <<requests, lastAdd, kubernetesData, kchannel, krunVars, now, syncVars, auxVars>>

\* The call of triggerCloudRrefresh up to its HTTP GET; a failed lookup
\* returns the error, which Add logs.
AddTrigger(t) ==
  /\ kpc[t] = "trigger"
  /\ ktrig' = [ktrig EXCEPT ![t] =
                 Append(@, <<korg[t], kinfo[t].ClusterID, kinfo[t].Version>>)]
  /\ \E db \in KDbChoices :
       LET r == triggerCloudRrefresh(db, kinfo[t].ClusterID, kinfo[t].Version)
       IN IF r.err
          THEN /\ kerr' = [kerr EXCEPT ![t] = TRUE]
               /\ kpc' = [kpc EXCEPT ![t] = "returned"]
               /\ UNCHANGED requests
          ELSE /\ requests' = [requests EXCEPT ![t] = <<r.get>>]
               /\ kpc' = [kpc EXCEPT ![t] = "inflight"]
               /\ UNCHANGED kerr
  /\ UNCHANGED <<korg, kinfo, unTriggerFlag, kleft, ksent, addsLeft, lastAdd>>
  /\ UNCHANGED <<kmutex, kubernetesData, kchannel, krunVars, now, syncVars, auxVars>>

\* The answer to the GET, or its failure; Add logs a failure and returns.
AddTriggerEnd(t) ==
  /\ kpc[t] = "inflight"
  /\ \E httpOK \in BOOLEAN : kerr' = [kerr EXCEPT ![t] = ~httpOK]
  /\ kpc' = [kpc EXCEPT ![t] = "returned"]
  /\ UNCHANGED <<korg, kinfo, unTriggerFlag, kleft, ksent, ktrig, addsLeft>>
  /\ UNCHANGED <<requests, lastAdd, k8sShared, krunVars, now, syncVars, auxVars>>

\* The caller is back in the receiver; the call's locals are gone.
AddDone(t) ==
  /\ kpc[t] = "returned"
  /\ kpc' = [kpc EXCEPT ![t] = "idle"]
  /\ korg' = [korg EXCEPT ![t] = 1]
  /\ kinfo' = [kinfo EXCEPT ![t] = NoKInfo]
  /\ unTriggerFlag' = [unTriggerFlag EXCEPT ![t] = FALSE]
  /\ ksent' = [ksent EXCEPT ![t] = {}]
  /\ ktrig' = [ktrig EXCEPT ![t] = <<>>]
  /\ kerr' = [kerr EXCEPT ![t] = FALSE]
  /\ requests' = [requests EXCEPT ![t] = <<>>]
  /\ UNCHANGED <<kleft, addsLeft, lastAdd>>
  /\ UNCHANGED <<k8sShared, krunVars, now, syncVars, auxVars>>

Add(t) ==
  \/ AddLock(t)
  \/ AddSend(t)
  \/ AddUnlock(t)
  \/ AddTrigger(t)
  \/ AddTriggerEnd(t)
  \/ AddDone(t)

Clear ==
  /\ kmutex = "free"
  /\ kubernetesData # NoMap
  /\ kubernetesData' = NoMap
  /\ UNCHANGED <<kmutex, kchannel, addVars, krunVars, now, syncVars, auxVars>>

(***************************************************************************)
(* KubernetesStorage.Start and the aging loop run.                         *)
(***************************************************************************)
KStart ==
  /\ krpc = "created"
  /\ krpc' = "sleep"
  /\ UNCHANGED <<krnow, krleft, krsent>>
  /\ UNCHANGED <<k8sShared, addVars, now, syncVars, auxVars>>

\* time.Sleep returns; now := time.Now().
KRunWake ==
  /\ krpc = "sleep"
  /\ krnow' = now
  /\ krpc' = "age"
  /\ UNCHANGED <<krleft, krsent>>
  /\ UNCHANGED <<k8sShared, addVars, now, syncVars, auxVars>>

\* The aging loops without the delete.
AgedKeepsAll(data, t) == data

Aged(data, t) ==
  [o \in DOMAIN data |->
     [c \in {x \in DOMAIN data[o] : t - data[o][x].Epoch <= AgingTime} |-> data[o][c]]]

\* Lock and the two loops that delete the aged records (lines 563-571).
KRunAge ==
  /\ krpc = "age" /\ kmutex = "free"
  /\ kmutex' = "run"
  /\ kubernetesData' = Aged(kubernetesData, krnow)
  /\ krleft' = Stored(Aged(kubernetesData, krnow))
  /\ krsent' = {}
  /\ krpc' = "fetch"
  /\ UNCHANGED krnow
  /\ UNCHANGED <<kchannel, addVars, now, syncVars, auxVars>>

KRunSend ==
  /\ krpc = "fetch" /\ kchannel < ChanCap
  /\ \E e \in krleft :
       /\ krleft' = krleft \ {e}
       /\ krsent' = krsent \cup {kubernetesData[e[1]][e[2]]}
  /\ kchannel' = kchannel + 1
  /\ UNCHANGED <<krpc, krnow>>
  /\ UNCHANGED <<kmutex, kubernetesData, addVars, now, syncVars, auxVars>>

KRunUnlock ==
  /\ krpc = "fetch" /\ krleft = {}
  /\ kmutex' = "free"
  /\ krpc' = "done"
  /\ UNCHANGED <<krnow, krleft, krsent>>
  /\ UNCHANGED <<kubernetesData, kchannel, addVars, now, syncVars, auxVars>>

\* The end of the loop body: the tick's locals are gone.
KRunLoop ==
  /\ krpc = "done"
  /\ krpc' = "sleep" /\ krnow' = 0 /\ krsent' = {}
  /\ UNCHANGED krleft
  /\ UNCHANGED <<k8sShared, addVars, now, syncVars, auxVars>>

krun == KRunWake \/ KRunAge \/ KRunSend \/ KRunUnlock \/ KRunLoop

KReceive ==
  /\ kchannel > 0
  /\ kchannel' = kchannel - 1
  /\ UNCHANGED <<kmutex, kubernetesData, addVars, krunVars, now, syncVars, auxVars>>

KClock ==
  /\ now < MaxTime
  /\ now' = now + 1
  /\ UNCHANGED <<auxVars, k8sVars, syncVars>>

NextK8s ==
  \/ \E t \in KThreads : Add(t)
  \/ Clear
  \/ KStart
  \/ krun
  \/ KReceive
  \/ KClock

SpecK8s == Init /\ [][NextK8s]_vars

(***************************************************************************)
(* Claims about SyncStorage, checked under Spec.                           *)
(***************************************************************************)
Count(f) == Cardinality(Records(genesisSyncInfo[f]))

CallerStep == <<cpc, ci>>' # <<cpc, ci>>

CallEnds == cpc \notin {"returned", "panic"} /\ cpc' \in {"returned", "panic"}

\* C1: an Update call on the loaded engine pushes exactly one snapshot,
\* holding every record of the update, and then upserts the ownership row if
\* and only if data names a family and info.vtapID is not 0; otherwise it
\* pushes nothing and upserts nothing.
C1_UpdatePushesAndUpserts ==
  [][/\ (cop = "Update" /\ cpc = "tail" /\ cpc' = "db")
          => \A f \in cdata.present : cdata.keys \subseteq pushed'.recs[f]
     /\ (cop = "Update" /\ loaded /\ CallEnds)
          => clog' = IF cdata.present # {} /\ cinfo.vtapID # 0
                     THEN <<"push", "upsert">> ELSE <<>>]_vars

\* C2: when Update returns after updating at least one family, dirty is true.
C2_DirtyAfterUpdate ==
  [][(cop = "Update" /\ updateFlag /\ cpc # "returned" /\ cpc' = "returned")
        => dirty']_vars

\* C3: no step of a Renew call adds a record to a family, sets dirty, sends on
\* the channel or writes the database, and every step that touches the
\* families is taken with the engine mutex held by the caller.
C3_RenewIsHeartbeatOnly ==
  [][(cop' = "Renew" /\ CallerStep)
        => /\ \A f \in Families :
                Cardinality(Records(genesisSyncInfo'[f])) <= Count(f)
           /\ dirty' = dirty
           /\ channel' = channel /\ pushed' = pushed
           /\ genesisStorage' = genesisStorage /\ dbFamilies' = dbFamilies
           /\ (genesisSyncInfo' # genesisSyncInfo => mutex = "caller" /\ mutex' = "caller")
           /\ (cpc' \in {"families", "tail"} => mutex' = "caller")]_vars

\* C3 witness: a Renew of Hosts and Vinterfaces has returned; the Hosts record
\* that existed carries the call's time, the absent Vinterfaces record was not
\* created.
C3_Witness ==
  /\ cop = "Renew" /\ cpc = "returned" /\ loaded
  /\ cdata.present = {"Hosts", "Vinterfaces"} /\ cdata.keys = Keys
  /\ cnow > 0
  /\ \A k \in Keys : genesisSyncInfo["Hosts"][k] = cnow
  /\ Records(genesisSyncInfo["Vinterfaces"]) = {}

\* C4: when a persistence tick is about to release the mutex, no record of an
\* aged family is older than the family's TTL.
C4_EveryFamilyAged ==
  rpc = "unlock" =>
    \A f \in AgedFamilies : Stale(genesisSyncInfo[f], rnow, TTL(f)) = {}

\* C5: in a persistence tick hasChange is the OR of the Age results and dirty;
\* dirty is false when the tick releases the mutex; the tick stores and then
\* pushes one snapshot if and only if hasChange.
C5_HasChangeIsOr == rpc \in {"clear", "unlock"} => hasChange = (ageAny \/ dirtyRead)

C5_StoreThenPushIffChange ==
  rpc = "done" => rlog = IF hasChange THEN <<"store", "push">> ELSE <<>>

C5_Tick ==
  /\ C5_HasChangeIsOr
  /\ rpc = "unlock" => dirty = FALSE
  /\ C5_StoreThenPushIffChange

\* C6: no snapshot sent on the channel is older, in any family, than the
\* snapshot sent before it.
C6_SnapshotsMonotonic ==
  [][channel' = channel + 1
        => \A f \in Families : pushed'.stamp[f] >= pushed.stamp[f]]_vars

\* C7: no snapshot sent on the channel holds one family as an Update call left
\* it and another family of the same call as it was before the call.
Torn(snap) ==
  \E u \in 1..Len(opFams) :
    \E f1 \in opFams[u], f2 \in opFams[u] :
      snap.stamp[f1] >= u /\ snap.stamp[f2] < u

C7_SnapshotsAtomic == ~Torn(pushed)

(***************************************************************************)
(* Claims about KubernetesStorage, checked under SpecK8s.                  *)
(***************************************************************************)
\* The step of caller t that takes the mutex and changes the map.
AddCommits(t) == kpc[t] = "idle" /\ kpc'[t] = "fetch"

\* The records of every organization.
AllRecords(data) == {data[e[1]][e[2]] : e \in Stored(data)}

\* Before the commit of (orgID, info): the call is a version change.
VersionChange(data, orgID, info) ==
  \/ orgID \notin DOMAIN data
  \/ info.ClusterID \notin DOMAIN data[orgID]
  \/ data[orgID][info.ClusterID].Version # info.Version

\* C8, as stated: whenever an Add follows an Add for the same orgID and
\* ClusterID with the same Version, it sets unTriggerFlag (no refresh
\* trigger) and leaves a stored record with the Version and Entries of the
\* earlier call and the Epoch and ErrorMSG of its own report.
C8_SameVersionNeverTriggers ==
  [][\A t \in KThreads :
       AddCommits(t) /\ lastAdd[kinfo'[t].ClusterID].Version = kinfo'[t].Version
       => LET o == korg'[t]
              c == kinfo'[t].ClusterID
          IN /\ unTriggerFlag'[t]
             /\ kubernetesData'[o][c] =
                  KInfo(c, lastAdd[c].Version, lastAdd[c].Entries,
                        kinfo'[t].ErrorMSG, kinfo'[t].Epoch)]_vars

\* C8, amended: when an Add follows an Add for the same orgID and ClusterID
\* with the same Version and the record is still stored (neither Clear nor
\* aging removed it in between), the call sets unTriggerFlag and never
\* reaches triggerCloudRrefresh, and the stored record keeps the Version and
\* the Entries stored before the call and takes the Epoch and ErrorMSG of
\* the call's report.
C8_SameVersionWhileStored ==
  [][\A t \in KThreads :
       /\ AddCommits(t)
          /\ lastAdd[kinfo'[t].ClusterID].Version = kinfo'[t].Version
          /\ <<korg'[t], kinfo'[t].ClusterID>> \in Stored(kubernetesData)
          => LET o == korg'[t]
                 c == kinfo'[t].ClusterID
             IN /\ unTriggerFlag'[t]
                /\ kubernetesData'[o][c] =
                     KInfo(c, lastAdd[c].Version, kubernetesData[o][c].Entries,
                           kinfo'[t].ErrorMSG, kinfo'[t].Epoch)
       /\ unTriggerFlag'[t] => ktrig'[t] = <<>> /\ kpc'[t] \in {"fetch", "returned"}]_vars

\* A second report of an unchanged Version with other Entries and another
\* ErrorMSG has returned without a trigger; the record keeps the Entries.
C8_Witness ==
  \E t \in KThreads :
    /\ kpc[t] = "returned" /\ unTriggerFlag[t] /\ ktrig[t] = <<>>
    /\ kinfo[t].ErrorMSG = "x"
    /\ <<korg[t], kinfo[t].ClusterID>> \in Stored(kubernetesData)
    /\ kubernetesData[korg[t]][kinfo[t].ClusterID].Entries # kinfo[t].Entries
    /\ kubernetesData[korg[t]][kinfo[t].ClusterID].ErrorMSG = "x"
    /\ kubernetesData[korg[t]][kinfo[t].ClusterID].Version = kinfo[t].Version

\* C9: the commit of Add(orgID, info) is a version change exactly when the
\* map has no orgID, or no entry for info.ClusterID, or an entry of another
\* Version; a version change stores info in full; and an Add returns with
\* exactly one invocation triggerCloudRrefresh(orgID, ClusterID, Version)
\* after a version change, failed or not, and with none otherwise.
C9_TriggerIffVersionChange ==
  [][\A t \in KThreads :
       /\ AddCommits(t)
          => /\ unTriggerFlag'[t] = ~VersionChange(kubernetesData, korg'[t], kinfo'[t])
             /\ VersionChange(kubernetesData, korg'[t], kinfo'[t])
                => kubernetesData'[korg'[t]][kinfo'[t].ClusterID] = kinfo'[t]
       /\ kpc[t] # "returned" /\ kpc'[t] = "returned"
          => ktrig'[t] = IF unTriggerFlag[t] THEN <<>>
                         ELSE << <<korg[t], kinfo[t].ClusterID, kinfo[t].Version>> >>
       /\ Len(ktrig'[t]) <= 1]_vars

\* Version 2 of cluster c1 replaced the record of version 1, the trigger
\* failed, and Add returned after that one invocation.
C9_Witness ==
  \E t, u \in KThreads :
    /\ t # u
    /\ kpc[u] = "returned" /\ kinfo[u].ClusterID = "c1" /\ kinfo[u].Version = 1
    /\ kpc[t] = "returned" /\ kerr[t]
    /\ ktrig[t] = << <<korg[t], "c1", 2>> >>
    /\ <<korg[t], "c1">> \in Stored(kubernetesData)
    /\ kubernetesData[korg[t]]["c1"] = kinfo[t]

\* C10: a caller sends on the channel only while it holds the mutex; when
\* it releases the mutex it has sent every stored record of every
\* organization, whatever the path; and it does not hold the mutex when it
\* calls triggerCloudRrefresh nor while the request is in flight.
C10_PushLockedTriggerUnlocked ==
  [][\A t \in KThreads :
       /\ kleft'[t] # kleft[t] /\ kpc[t] = "fetch" => kmutex = t /\ kmutex' = t
       /\ kchannel' > kchannel /\ krsent' = krsent => \E u \in KThreads :
            kmutex = u /\ kleft'[u] # kleft[u]
       /\ kmutex = t /\ kmutex' # t
          => /\ ksent[t] = AllRecords(kubernetesData)
             /\ kubernetesData[korg[t]][kinfo[t].ClusterID].Epoch = kinfo[t].Epoch
       /\ kpc'[t] \in {"trigger", "inflight"} => kmutex' # t
       /\ ktrig'[t] # ktrig[t] => kmutex # t]_vars

\* One Add's refresh request is in flight while another Add holds the mutex
\* and has pushed the snapshot with its own mutation.
C10_Witness ==
  \E t, u \in KThreads :
    /\ kpc[t] = "inflight" /\ requests[t] # <<>>
    /\ kpc[u] = "fetch" /\ kmutex = u /\ kleft[u] = {}
    /\ Cardinality(ksent[u]) = 2
    /\ kubernetesData[korg[u]][kinfo[u].ClusterID] \in ksent[u]

\* C11: a tick of the aging loop, in one critical section of the mutex,
\* deletes exactly the entries with now - Epoch greater than AgingTime (now
\* is the time the tick read), leaves every other entry as it was, and sends
\* each remaining entry once on the channel before it unlocks.
C11_AgingTick ==
  [][/\ krpc = "age" /\ krpc' = "fetch"
          => /\ DOMAIN kubernetesData' = DOMAIN kubernetesData
             /\ \A e \in Stored(kubernetesData) :
                  IF krnow - kubernetesData[e[1]][e[2]].Epoch > AgingTime
                  THEN e \notin Stored(kubernetesData')
                  ELSE /\ e \in Stored(kubernetesData')
                       /\ kubernetesData'[e[1]][e[2]] = kubernetesData[e[1]][e[2]]
             /\ Stored(kubernetesData') \subseteq Stored(kubernetesData)
             /\ kmutex' = "run"
     /\ krpc = "fetch"
          => /\ kmutex = "run"
             /\ kubernetesData' = kubernetesData
             /\ krsent' # krsent
                  => /\ kchannel' = kchannel + 1
                     /\ Cardinality(krsent') = Cardinality(krsent) + 1
     /\ krpc = "fetch" /\ krpc' = "done"
          => /\ krsent = AllRecords(kubernetesData)
             /\ \A r \in krsent : krnow - r.Epoch <= AgingTime
             /\ kmutex' = "free"
     /\ kmutex' = "run" => krpc' = "fetch"]_vars

\* A tick has ended: the report of cluster c1 was too old and is gone, the
\* report of cluster c2 is kept as Add left it and was sent.
C11_Witness ==
  /\ krpc = "done"
  /\ lastAdd["c1"].Version # 0 /\ krnow - lastAdd["c1"].Epoch > AgingTime
  /\ Stored(kubernetesData) = {<<1, "c2">>}
  /\ kubernetesData[1]["c2"] = lastAdd["c2"]
  /\ krsent = {lastAdd["c2"]}

(***************************************************************************)
(* Table genesis_storage as rows, the upsert of Update by any controller   *)
(* node, and refreshDatabase statement by statement.                       *)
(***************************************************************************)
OwnVtapIDs == {1, 2}

Nodes == {NODE_IP, "peer"}

StorageRow(v, n) == [vtap_id |-> v, node_ip |-> n]

\* Create without the OnConflict clause.
PlainCreate(rows, v, n) == rows \cup {StorageRow(v, n)}

\* Create with OnConflict on vtap_id, DoUpdates node_ip (lines 252-258).
OnConflictCreate(rows, v, n) ==
  IF \E r \in rows : r.vtap_id = v
  THEN {IF r.vtap_id = v THEN StorageRow(v, n) ELSE r : r \in rows}
  ELSE rows \cup {StorageRow(v, n)}

\* The upsert at the end of an Update on node n for agent v of organization o.
Upsert(n, o, v) ==
  /\ upsertsLeft > 0
  /\ upsertsLeft' = upsertsLeft - 1
  /\ storageRows' = [storageRows EXCEPT ![o] = OnConflictCreate(@, v, n)]
  /\ olog' = Append(olog, <<n, o, v>>)
  /\ UNCHANGED <<opc, oleft, oinvalid>>
  /\ UNCHANGED <<ctxVars, trigVars, k8sVars, now, syncVars>>

\* go s.refreshDatabase(): the ticker is created.
RefreshStart ==
  /\ opc = "created"
  /\ opc' = "wait"
  /\ UNCHANGED <<storageRows, oleft, oinvalid, olog, upsertsLeft>>
  /\ UNCHANGED <<ctxVars, trigVars, k8sVars, now, syncVars>>

\* The ticker fires: mysql.GetORGIDs(), and return when it fails.
RefreshTick ==
  /\ opc = "wait"
  /\ \E orgIDsOK \in BOOLEAN :
       IF orgIDsOK
       THEN opc' = "org" /\ oleft' = <<1, 2>>
       ELSE opc' = "returned" /\ UNCHANGED oleft
  /\ olog' = <<>>
  /\ UNCHANGED <<storageRows, oinvalid, upsertsLeft>>
  /\ UNCHANGED <<ctxVars, trigVars, k8sVars, now, syncVars>>

\* One organization: GetDB (continue when it fails), the two Find, whose
\* errors are not looked at, and invalidStorages (lines 357-374).
RefreshScan ==
  /\ opc = "org" /\ oleft # <<>>
  /\ \E getDB \in BOOLEAN, vTapsOK \in BOOLEAN, storagesOK \in BOOLEAN :
       LET o == Head(oleft)
           vTapIDs == IF vTapsOK THEN vtap[o] ELSE {}
           storages == IF storagesOK
                       THEN {r \in storageRows[o] : r.node_ip = NODE_IP}
                       ELSE {}
           invalidStorages == {r \in storages : r.vtap_id \notin vTapIDs}
       IN IF getDB /\ invalidStorages # {}
          THEN opc' = "delete" /\ oinvalid' = invalidStorages /\ UNCHANGED oleft
          ELSE opc' = "org" /\ oleft' = Tail(oleft) /\ UNCHANGED oinvalid
  /\ UNCHANGED <<storageRows, olog, upsertsLeft>>
  /\ UNCHANGED <<ctxVars, trigVars, k8sVars, now, syncVars>>

\* db.Delete(&invalidStorages): the rows with these vtap_id go, unless the
\* statement fails, which is logged.
RefreshDelete ==
  /\ opc = "delete"
  /\ \E deleteOK \in BOOLEAN :
       storageRows' =
         IF deleteOK
         THEN [storageRows EXCEPT ![Head(oleft)] =
                 {r \in @ : \A i \in oinvalid : r.vtap_id # i.vtap_id}]
         ELSE storageRows
  /\ opc' = "org" /\ oleft' = Tail(oleft) /\ oinvalid' = {}
  /\ UNCHANGED <<olog, upsertsLeft>>
  /\ UNCHANGED <<ctxVars, trigVars, k8sVars, now, syncVars>>

\* After the last organization: s.dirty = true, and the tick is over.
RefreshDirty ==
  /\ opc = "org" /\ oleft = <<>>
  /\ dirty' = TRUE
  /\ opc' = "wait"
  /\ UNCHANGED <<storageRows, oleft, oinvalid, olog, upsertsLeft>>
  /\ UNCHANGED <<crashed, mutex, loaded, genesisSyncInfo, channel, pushed,
                 stamp, opFams, genesisStorage, dbFamilies>>
  /\ UNCHANGED <<callerVars, runVars, qpc>>
  /\ UNCHANGED <<ctxVars, trigVars, k8sVars, now>>

NextOwn ==
  \/ \E n \in Nodes, o \in Orgs, v \in OwnVtapIDs : Upsert(n, o, v)
  \/ RefreshStart
  \/ RefreshTick
  \/ RefreshScan
  \/ RefreshDelete
  \/ RefreshDirty

SpecOwn == Init /\ [][NextOwn]_vars

(***************************************************************************)
(* Claims about the rows of genesis_storage, checked under SpecOwn.        *)
(***************************************************************************)
\* The rows of organization o that belong to this node and to no agent of
\* table vtap.
InvalidRows(rows, o) == {r \in rows[o] : r.node_ip = NODE_IP /\ r.vtap_id \notin vtap[o]}

\* A step of the reconciler.
ReconcilerStep == <<opc, oleft>>' # <<opc, oleft>>

\* C12: when a tick of the reconciler ends, and no upsert was made while it
\* ran, no organization holds a row of this node whose vtap_id is not in
\* vtap; and no step of the reconciler removes or changes a row whose
\* vtap_id is in vtap.
C12_TickPrunesInvalidRowsOnly ==
  [][/\ opc = "org" /\ opc' = "wait" /\ olog = <<>>
          => \A o \in Orgs : InvalidRows(storageRows', o) = {}
     /\ ReconcilerStep
          => \A o \in Orgs : \A r \in storageRows[o] :
               r.vtap_id \in vtap[o] => r \in storageRows'[o]]_vars

\* C15: an error in a tick never ends the reconciler: after a failure of
\* GetORGIDs it waits for the next tick, and after a failure of GetDB it goes
\* on with the next organization.
C15_ReconcilerSurvivesErrors ==
  [][/\ opc' # "returned"
     /\ opc = "org" /\ oleft # <<>> /\ opc' = "org" => oleft' = Tail(oleft)]_vars

\* C18: each organization's genesis_storage has at most one row per vtap_id,
\* and right after an upsert by node n for agent v the row of v names n.
C18_OneOwnerPerAgent ==
  [][/\ \A o \in Orgs : \A r1, r2 \in storageRows'[o] :
          r1.vtap_id = r2.vtap_id => r1 = r2
     /\ upsertsLeft' < upsertsLeft
          => LET u == olog'[Len(olog')]
             IN {r \in storageRows'[u[2]] : r.vtap_id = u[3]} =
                  {StorageRow(u[3], u[1])}]_vars

\* The peer upserted agent 1 of organization 1 after this node did: the
\* one row of the agent names the peer.
C18_Witness ==
  /\ Len(olog) >= 2
  /\ olog[Len(olog) - 1] = <<NODE_IP, 1, 1>>
  /\ olog[Len(olog)] = <<"peer", 1, 1>>
  /\ storageRows[1] = {StorageRow(1, "peer")}

(***************************************************************************)
(* Further claims about SyncStorage, checked under Spec.                   *)
(***************************************************************************)
\* C13: the reconciler's write of dirty is never lost: when the persistence
\* loop clears dirty, a flag that is set has been taken into hasChange, so
\* that the tick stores and pushes.
C13_DirtyWriteNeverLost ==
  [][rpc = "clear" /\ rpc' = "unlock" => (dirty => hasChange)]_vars

\* C17: no call of Renew or Update reaches a crash, whatever the state of
\* the engine it is made in.
C17_CallsNeverFail == ~crashed /\ cpc # "panic"

\* C19: the aging step of a persistence tick leaves the Hosts family as it
\* is; the snapshot the tick builds takes every Hosts record the engine
\* holds when fetch reads the family, those older than AgingTime included,
\* and the tick sends that snapshot.
C19_HostsNotAged ==
  [][/\ rpc = "age" /\ rpc' = "clear"
          => genesisSyncInfo'["Hosts"] = genesisSyncInfo["Hosts"]
     /\ rpc = "fetch" /\ ri' = ri + 1 /\ FetchOrder[ri] = "Hosts"
          => /\ rsnap'.recs["Hosts"] = Records(genesisSyncInfo["Hosts"])
             /\ Stale(genesisSyncInfo["Hosts"], rnow, AgingTime) \subseteq rsnap'.recs["Hosts"]
     /\ rpc = "send" /\ rpc' = "done"
          => pushed'.recs["Hosts"] = rsnap.recs["Hosts"]]_vars

\* A tick has aged another family, stored and pushed; the Hosts record,
\* older than AgingTime, is in the engine and in the snapshot.
C19_Witness ==
  /\ rpc = "done" /\ rlog = <<"store", "push">> /\ ageAny
  /\ Stale(genesisSyncInfo["Hosts"], rnow, AgingTime) = Keys
  /\ pushed = rsnap
  /\ Keys \subseteq pushed.recs["Hosts"]

(***************************************************************************)
(* Stop, and the background loops of SyncStorage after it.                 *)
(***************************************************************************)
\* SyncStorage.Stop: s.vCancel() cancels vCtx.
Stop ==
  /\ ~vCancelled
  /\ vCancelled' = TRUE
  /\ UNCHANGED <<kCancelled, ownVars, trigVars, k8sVars, now, syncVars>>

\* KubernetesStorage.Stop: k.kCancel() cancels kCtx.
KStop ==
  /\ ~kCancelled
  /\ kCancelled' = TRUE
  /\ UNCHANGED <<vCancelled, ownVars, trigVars, k8sVars, now, syncVars>>

NextStop ==
  \/ Start
  \/ run
  \/ refreshDatabase
  \/ Receive
  \/ Clock
  \/ Stop
  \/ KStop

SpecStop == Init /\ [][NextStop]_vars

\* C14: once Stop has been called, the persistence loop observes it at its
\* sleep boundary: it does not wake from the sleep into another tick.
C14_LoopsExitAfterStop ==
  [][vCancelled /\ rpc = "sleep" => rpc' = "sleep"]_vars

(***************************************************************************)
(* triggerCloudRrefresh called on its own, for every answer of a small     *)
(* database.                                                               *)
(***************************************************************************)
SubDomainUniverse ==
  {SubDomainRow("s1", "d2", "c1"), SubDomainRow("s2", "d1", "c1"),
   SubDomainRow("s3", "d2", "c2")}

DomainUniverse ==
  {DomainRow("d1", "c1", KUBERNETES, "10.0.0.1"),
   DomainRow("d2", "c9", KUBERNETES, "10.0.0.2"),
   DomainRow("d3", "c2", "other", "10.0.0.1"),
   DomainRow("d4", "c2", KUBERNETES, "10.0.0.2")}

ControllerUniverse ==
  {ControllerRow("10.0.0.1", "normal", "pod1"),
   ControllerRow("10.0.0.1", CONTROLLER_STATE_EXCEPTION, "pod9"),
   ControllerRow("10.0.0.2", "normal", "")}

InitTrigger ==
  /\ now = 0 /\ InitSync /\ InitK8s /\ InitCtx /\ InitOwn
  /\ tdb \in {KDb(ok, subOK, subs, doms, ctrls) :
                ok \in BOOLEAN, subOK \in BOOLEAN, subs \in SUBSET SubDomainUniverse,
                doms \in SUBSET DomainUniverse, ctrls \in SUBSET ControllerUniverse}
  /\ tcluster \in ClusterIDs
  /\ tversion \in {1, 2}
  /\ tres = <<>>
  /\ tpc = "called"

\* The lookups, and the GET when they resolve the target.
TriggerLookup ==
  /\ tpc = "called"
  /\ tres' = triggerCloudRrefresh(tdb, tcluster, tversion)
  /\ tpc' = "looked"
  /\ UNCHANGED <<tdb, tcluster, tversion>>
  /\ UNCHANGED <<ctxVars, ownVars, k8sVars, now, syncVars>>

\* gcommon.RequestGet returns nil or its error, which is returned.
TriggerReturn ==
  /\ tpc = "looked"
  /\ \E httpOK \in BOOLEAN :
       tres' = IF tres.err THEN tres ELSE [tres EXCEPT !.err = ~httpOK]
  /\ tpc' = "returned"
  /\ UNCHANGED <<tdb, tcluster, tversion>>
  /\ UNCHANGED <<ctxVars, ownVars, k8sVars, now, syncVars>>

NextTrigger == TriggerLookup \/ TriggerReturn

SpecTrigger == InitTrigger /\ [][NextTrigger]_vars

\* C16: after the lookups of triggerCloudRrefresh(orgID, clusterID, version):
\* with no sub_domain row of the cluster the target is the KUBERNETES domain
\* of that cluster_id and sub_domain_lcuuid is the domain's lcuuid; with one
\* row it is the KUBERNETES domain the row names and sub_domain_lcuuid is the
\* row's lcuuid; the GET goes to (pod_ip, listenPort) when the domain's
\* controller that is not in state EXCEPTION has a pod_ip, else to
\* (controller_ip, listenNodePort); and when a lookup fails, finds nothing
\* or finds several sub_domain rows, an error is returned and no GET is made.
C16_TriggerResolution ==
  tpc = "looked" =>
    LET subs == {s \in tdb.sub_domain : s.cluster_id = tcluster}
        n == Cardinality(subs)
        Target(d, c) ==
          /\ d \in tdb.domain /\ d.type = KUBERNETES
          /\ IF n = 0 THEN d.cluster_id = tcluster
             ELSE \E s \in subs : d.lcuuid = s.domain
          /\ c \in tdb.controller /\ c.ip = d.controller_ip
          /\ c.state # CONTROLLER_STATE_EXCEPTION
        resolved ==
          /\ tdb.getDB /\ tdb.subOK /\ n <= 1
          /\ \E d \in DomainUniverse, c \in ControllerUniverse : Target(d, c)
    IN IF resolved
       THEN /\ ~tres.err
            /\ \E d \in DomainUniverse, c \in ControllerUniverse :
                 /\ Target(d, c)
                 /\ tres.get.domain_lcuuid = d.lcuuid
                 /\ tres.get.sub_domain_lcuuid =
                      IF n = 0 THEN d.lcuuid ELSE (CHOOSE s \in subs : TRUE).lcuuid
                 /\ tres.get.version = tversion
                 /\ IF c.pod_ip # ""
                    THEN tres.get.ip = c.pod_ip /\ tres.get.port = "listenPort"
                    ELSE tres.get.ip = d.controller_ip /\ tres.get.port = "listenNodePort"
       ELSE tres.err /\ tres.get = <<>>

\* One sub_domain row names the cluster; its domain's controller has no
\* pod_ip: the GET goes to the controller's ip and the node port with the
\* sub-domain's lcuuid.
C16_Witness ==
  /\ tpc = "looked" /\ ~tres.err
  /\ Cardinality({s \in tdb.sub_domain : s.cluster_id = tcluster}) = 1
  /\ tres.get.port = "listenNodePort" /\ tres.get.ip = "10.0.0.2"
  /\ tres.get.domain_lcuuid = "d2" /\ tres.get.sub_domain_lcuuid \in {"s1", "s3"}

(***************************************************************************)
(* Progress of SyncStorage: the consumer keeps receiving, sync.Mutex and   *)
(* the channel serve every waiter (strong fairness of each process), and   *)
(* time stands still.                                                      *)
(***************************************************************************)
\* The steps of a call that has been made.
CallerProgress ==
  \/ CallerLock
  \/ CallerPanic
  \/ RenewFamily
  \/ RenewReturn
  \/ UpdateFamily
  \/ UpdatePush
  \/ UpdateDB
  \/ UpdateReturn

NextLive ==
  \/ Renew
  \/ Update
  \/ CallerLock
  \/ CallerPanic
  \/ CallerDone
  \/ Start
  \/ run
  \/ Receive

SpecLive ==
  /\ Init /\ [][NextLive]_vars
  /\ WF_vars(Receive)
  /\ SF_vars(CallerProgress)
  /\ SF_vars(run)

\* C20: with the consumer receiving, every Renew and Update that was called
\* returns, every holder of the mutex releases it, and every initial load and
\* persistence tick that began ends.
C20_EveryOperationCompletes ==
  /\ (cpc = "lock") ~> (cpc = "returned")
  /\ (mutex # "free") ~> (mutex = "free")
  /\ (rpc \in {"load", "age"}) ~> (rpc \in {"sleep", "done"})

(***************************************************************************)
(* The reconciler against upserts of peer nodes, checked under SpecOwn.    *)
(***************************************************************************)
\* C21: the delete statement of the reconciler removes only rows that name
\* this node at the moment of the delete: no row whose node_ip is another
\* node's goes, whatever upserts the peers made since the rows were read.
\* The rows read are those of agents that table vtap does not hold, so that
\* the statement is the one of a reconciler whose reads succeeded.
C21_DeletesOnlyOwnRows ==
  [][(/\ opc = "delete" /\ opc' = "org"
      /\ (\A i \in oinvalid : i.vtap_id \notin vtap[Head(oleft)]))
       => \A o \in Orgs : \A r \in storageRows[o] :
            r \notin storageRows'[o] => r.node_ip = NODE_IP]_vars

(***************************************************************************)
(* The order of the refresh triggers of concurrent Add calls, checked      *)
(* under SpecK8s.                                                          *)
(***************************************************************************)
\* Another call than t has committed a version change for the cluster of
\* t's report and has not called triggerCloudRrefresh yet.
TriggerPending(t) ==
  \E u \in KThreads \ {t} :
    /\ kpc[u] \in {"fetch", "trigger"} /\ ~unTriggerFlag[u]
    /\ korg[u] = korg[t] /\ kinfo[u].ClusterID = kinfo[t].ClusterID

\* C22: the triggers for one (orgID, ClusterID) go out in the order of the
\* commits: when a call sends its refresh request and no other call has a
\* trigger for that cluster still to issue, so that this request is the
\* most recent one once the calls have returned, the version it carries is
\* the Version of the record stored for the cluster.
C22_TriggersInCommitOrder ==
  [][\A t \in KThreads :
       (/\ kpc[t] = "trigger" /\ kpc'[t] = "inflight"
        /\ ~TriggerPending(t)
        /\ <<korg[t], kinfo[t].ClusterID>> \in Stored(kubernetesData))
         => kubernetesData[korg[t]][kinfo[t].ClusterID].Version =
              requests'[t][1].version]_vars

====
